---- MODULE Spec2Model ----
(***************************************************************************)
(* The SolverLLM MCTS engine of week_02/OptMCTS (mcts/search.py,           *)
(* mcts/node.py, mcts/evaluator.py, core/executor.py,                      *)
(* evaluation/evaluator.py) as a state machine.                            *)
(*                                                                         *)
(* One MCTS object serves a sequence of search() calls.  A call runs       *)
(* n_iterations rounds of SELECT, EXPAND, SIMULATE, BACKPROPAGATE and the  *)
(* best-result bookkeeping.  The text generator, the evaluator and the     *)
(* code executor are collaborators: what they answer is drawn from the     *)
(* pools of the stub profile chosen at construction (variable cfg).        *)
(*                                                                         *)
(* Floats are fixed-point numbers: a float x is the integer x * Scale,     *)
(* and every float operation rounds to the nearest such number.            *)
(***************************************************************************)
EXTENDS Integers, Sequences, FiniteSets, TLC

\* ------------------------------------------------------------ bounds

\* n_iterations, at most, of the profile with every kind of execution result
MaxIter == 3
\* n_iterations of the profile whose generator answers any of its texts
GenIter == 2
\* n_iterations of the profile whose evaluator answers any score and signal
EvalIter == 3
\* n_iterations of the profile whose generator keeps answering new texts
CapIter == 4
\* n_iterations of the profile that re-simulates one branch over and over
LongIter == 22
\* n_iterations of the profile that grows one chain down to layer 6
DeepIter == 7
\* search() calls made on the one MCTS object in the multi-call profile
MaxCalls == 2
\* n_iterations of each of two interleaved searches
PairIter == 2
\* the longest list of sampled scores given to the reward and uncertainty
\* functions
MaxK == 3
\* the longest list of candidates given to the pruner by itself
MaxCand == 3
\* n_iterations of the profile whose generator answers near copies
DupIter == 3
\* n_iterations of the profiles that run on after a chain is complete
SkipIter == 8
\* n_iterations of the profile whose root gets three children
WideIter == 5
\* how many mutually dissimilar texts the generator of the cap profile knows
NumTexts == 6

\* ------------------------------------------------- program constants

\* resolution of the fixed-point image of a float (1.0 is Scale)
Scale == 6000
\* MCTS.MAX_CHILDREN
MAX_CHILDREN == 5
\* the last layer: a node there is complete
LastLayer == 6
\* candidates requested per expansion
NumCandidates == 3
\* similarity threshold of pruning and of deduplication, in percent
Threshold == 80
\* knowledge base: a list longer than KbCap is cut to its last KbKeep entries
KbCap == 20
KbKeep == 10
\* exploration constant C of UCB1
ExplorationC == 2
\* K, the number of objective score samples
KSamples == 3
\* max_retries of _generate_and_execute
max_retries == 12
\* core/llm.py
MAX_RETRIES == 8
BASE_DELAY == 2

LAYER_NAMES == <<"root", "type", "sets", "parameters", "variables", "objective", "constraints">>

\* LAYER_NAMES of mcts/evaluator.py: the keys of the signals
EvalLayerNames == {"type", "sets", "parameters", "variables", "objective", "constraints"}

\* LAYER_NAMES[1:], the keys of the knowledge base
KbNames == {LAYER_NAMES[j] : j \in 2..Len(LAYER_NAMES)}

\* uncertainty_threshold eta = 0.3
Eta == (3 * Scale) \div 10

\* ------------------------------------------------------- arithmetic

Min(a, b) == IF a <= b THEN a ELSE b
Max(a, b) == IF a >= b THEN a ELSE b
Abs(a) == IF a >= 0 THEN a ELSE -a

\* a / b rounded to the nearest integer (b > 0)
RoundDiv(a, b) == (2 * a + b) \div (2 * b)

RECURSIVE SqrtSearch(_, _, _)
SqrtSearch(n, lo, hi) ==
    IF lo >= hi THEN lo
    ELSE LET mid == (lo + hi + 1) \div 2
         IN  IF mid * mid <= n THEN SqrtSearch(n, mid, hi)
             ELSE SqrtSearch(n, lo, mid - 1)

\* floor of the square root of n, 0 <= n < 2^30
ISqrt(n) == SqrtSearch(n, 0, 32767)

RECURSIVE SumSeq(_)
SumSeq(s) == IF s = <<>> THEN 0 ELSE Head(s) + SumSeq(Tail(s))

RECURSIVE SumSq(_)
SumSq(s) == IF s = <<>> THEN 0 ELSE Head(s) * Head(s) + SumSq(Tail(s))

Range(s) == {s[j] : j \in 1..Len(s)}

\* 1000 * ln(n) for n = 1..32
LnMilli ==
    <<0, 693, 1099, 1386, 1609, 1792, 1946, 2079, 2197, 2303, 2398, 2485,
      2565, 2639, 2708, 2773, 2833, 2890, 2944, 2996, 3045, 3091, 3135, 3178,
      3219, 3258, 3296, 3332, 3367, 3401, 3434, 3466>>

\* math.exp(-u) for 0 <= u <= 1: Horner form of the series to the 9th power
RECURSIVE ExpSeries(_, _)
ExpSeries(u, n) ==
    IF n > 9 THEN 100000
    ELSE 100000 - (RoundDiv(u * 1000, Scale) * ExpSeries(u, n + 1)) \div (1000 * n)

ExpNeg(u) == RoundDiv(ExpSeries(u, 1) * Scale, 100000)

\* ------------------------------------------------------------ state

VARIABLES
    cfg,              \* the stub profile and n_iterations of the MCTS object
    calls,            \* search() calls started so far
    pc,               \* where the running search() is, "idle" outside one
    i,                \* the loop index of search()
    expected_answer,  \* the argument of the running search()
    nodes,            \* the tree: the MCTSNode objects in creation order
    kb,               \* self.knowledge_base
    best_result,
    found_correct,
    node,             \* what _select returned (an index of nodes, 0 none)
    child,            \* what _expand returned (an index of nodes, 0 None)
    sim,              \* what _simulate returned
    ret,              \* how the last search() ended
    hist,             \* history of the running search(), for the properties
    other,            \* a second search(), suspended in a collaborator call
    loop              \* the running _generate_and_execute or _retry_api_call

vars == <<cfg, calls, pc, i, expected_answer, nodes, kb, best_result,
          found_correct, node, child, sim, ret, hist, other, loop>>

\* ------------------------------------------------------------ texts

\* A generated text is one of a family of variants: variant 0 the text
\* itself, 1 the same text in other letter case, 2 a near copy, 3 a looser
\* rewording.  Family 0 is the empty text of the root.
Text(f, v) == [f |-> f, v |-> v]
EmptyText == Text(0, 0)

\* SequenceMatcher(None, a.lower()[:300], b.lower()[:300]).ratio(), in percent
LowerText(t) == IF t.v = 1 THEN Text(t.f, 0) ELSE t

\* the ratio of two texts: by their families and variants, or, where the
\* pruner is run by itself, whatever the table of ratios says
Similarity(a, b) ==
    LET x == LowerText(a)
        y == LowerText(b)
    IN  IF cfg.name = "prune" THEN cfg.ratio[x][y]
        ELSE IF x = y THEN 100
        ELSE IF x.f # y.f THEN 25
        ELSE IF x.v = 3 \/ y.v = 3 THEN 80
        ELSE 95

\* ---------------------------------------------------------- results

\* stdout is a sequence of tokens: a number, a word or a lone full stop
Num(n) == [kind |-> "num", val |-> n]
Word == [kind |-> "word", val |-> 0]
Dot == [kind |-> "dot", val |-> 0]

Result(success, output, error) ==
    [success |-> success, output |-> output, error |-> error]

\* best_result before any iteration
Sentinel == Result(FALSE, <<>>, "No solution found")

\* MCTSNode.result before the node is simulated: an empty dict
NoResult == Result(FALSE, <<>>, "")

\* re.search(r"-?[\d.]+", output): a digit or a full stop somewhere
IsValid(r) ==
    IF ~r.success THEN FALSE
    ELSE \E j \in 1..Len(r.output) : r.output[j].kind \in {"num", "dot"}

None == [some |-> FALSE, val |-> 0]
Some(n) == [some |-> TRUE, val |-> n]

\* the last number of the output, None without one
ExtractAnswer(output) ==
    LET at == {j \in 1..Len(output) : output[j].kind = "num"}
    IN  IF at = {} THEN None
        ELSE Some(output[CHOOSE j \in at : \A m \in at : m <= j].val)

\* relative error below 10%, or, for actual = 0, absolute error below 1e-4
Evaluate(predicted, actual) ==
    IF ~predicted.some THEN FALSE
    ELSE IF Abs(actual) > 0 THEN 10 * Abs(predicted.val - actual) < Abs(actual)
    ELSE Abs(predicted.val - actual) = 0

\* ------------------------------------------------------- evaluator

\* A guidance text: the advice the evaluator gave in iteration `iter` of
\* search() call `call`.  NoAdvice is the empty string.
Advice(call, iter) == [call |-> call, iter |-> iter]
NoAdvice == Advice(0, 0)

\* a global uncertainty normalised by the range of the scores, 100
ComputeGlobalUncertaintyByRange(scores) ==
    IF Len(scores) < 2 THEN 0
    ELSE LET n == Len(scores)
             x == n * SumSq(scores) - SumSeq(scores) * SumSeq(scores)
         IN  Min(RoundDiv(ISqrt(x * 10000) * Scale, 100 * 100 * n), Scale)

\* compute_global_uncertainty: min(population stddev / 50, 1.0)
ComputeGlobalUncertainty(scores) ==
    IF Len(scores) < 2 THEN 0
    ELSE LET n == Len(scores)
             x == n * SumSq(scores) - SumSeq(scores) * SumSeq(scores)
         IN  Min(RoundDiv(ISqrt(x * 10000) * Scale, 100 * 50 * n), Scale)

\* compute_local_uncertainty: min(-mean(logprobs) / 5.0, 1.0); the token
\* log-probabilities are given in thousandths of a nat
ComputeLocalUncertainty(token_logprobs) ==
    IF token_logprobs = <<>> THEN 0
    ELSE Min(RoundDiv((-SumSeq(token_logprobs)) * Scale,
                      Len(token_logprobs) * 5 * 1000), Scale)

\* get_all_reasoning_signals: one record per layer of the evaluator's one
\* answer `data`, all with the local uncertainty of that answer; a layer
\* the answer leaves out gets trigger = false and guidance = ""
GetAllReasoningSignals(data, token_logprobs) ==
    [name \in EvalLayerNames |->
        [trigger |-> IF name \in DOMAIN data THEN data[name].trigger ELSE FALSE,
         guidance |-> IF name \in DOMAIN data THEN data[name].guidance ELSE NoAdvice,
         local_uncertainty |-> ComputeLocalUncertainty(token_logprobs)]]

\* the formula without its clamp
FormulaRewardUnclamped(res, scores) ==
    LET mean_score == RoundDiv(SumSeq(scores) * Scale, Len(scores) * 100)
        feasible == IF res.success THEN Scale ELSE 0
        error_flag == IF res.success THEN 0 ELSE Scale
    IN  RoundDiv(feasible, 10) + RoundDiv(8 * mean_score, 10) - RoundDiv(error_flag, 10)

\* a formula that gives a feasible execution 0.2
FormulaRewardFullWeight(res, scores) ==
    LET mean_score == RoundDiv(SumSeq(scores) * Scale, Len(scores) * 100)
        feasible == IF res.success THEN Scale ELSE 0
        error_flag == IF res.success THEN 0 ELSE Scale
    IN  Max(0, Min(Scale, RoundDiv(2 * feasible, 10) + RoundDiv(8 * mean_score, 10)
                          - RoundDiv(error_flag, 10)))

\* the formula without the penalty for a failed execution
FormulaRewardNoPenalty(res, scores) ==
    LET mean_score == RoundDiv(SumSeq(scores) * Scale, Len(scores) * 100)
        feasible == IF res.success THEN Scale ELSE 0
    IN  Max(0, Min(Scale, RoundDiv(feasible, 10) + RoundDiv(8 * mean_score, 10)))

\* the reward of _simulate before the ground-truth override
FormulaReward(res, scores) ==
    LET mean_score == RoundDiv(SumSeq(scores) * Scale, Len(scores) * 100)
        feasible == IF res.success THEN Scale ELSE 0
        error_flag == IF res.success THEN 0 ELSE Scale
    IN  Max(0, Min(Scale, RoundDiv(feasible, 10) + RoundDiv(8 * mean_score, 10)
                          - RoundDiv(error_flag, 10)))

\* an override that does not ask whether the execution result is valid
SimRewardAnyResult(res, scores, expected) ==
    IF expected.some /\ Evaluate(ExtractAnswer(res.output), expected.val)
    THEN Scale
    ELSE FormulaReward(res, scores)

\* the reward of _simulate
SimReward(res, scores, expected) ==
    IF expected.some /\ IsValid(res)
       /\ Evaluate(ExtractAnswer(res.output), expected.val)
    THEN Scale
    ELSE FormulaReward(res, scores)

\* ----------------------------------------------- collaborator stubs

OkOut(n) == Result(TRUE, <<Word, Num(n)>>, "")
OkNoNumber == Result(TRUE, <<Word>>, "")
OkDot == Result(TRUE, <<Word, Dot>>, "")
Failed == Result(FALSE, <<>>, "Traceback")
TimedOut == Result(FALSE, <<>>, "Execution timed out")

\* an evaluator answer: the layers it flags, the layers it advises on, and
\* the log-probabilities of its tokens
Sig(trig, guide, logprobs) == [trig |-> trig, guide |-> guide, logprobs |-> logprobs]

OneText == [name \in KbNames |-> <<Text(1, 0)>>]

\* every kind of execution result, with and without an expected answer
OutsProfiles ==
    {[name |-> "outs", n_iterations |-> n, calls |-> 1, script |-> TRUE,
      gen |-> OneText,
      outs |-> {Failed, OkOut(42), OkOut(7), OkNoNumber, OkDot},
      scores |-> {<<80, 80, 80>>, <<100, 100, 100>>},
      sigs |-> {Sig({}, {}, <<>>)},
      expected |-> {None, Some(42)}] : n \in 0..MaxIter}

\* a generator free to answer any of its texts, near copies among them
GenProfile ==
    [name |-> "gen", n_iterations |-> GenIter, calls |-> 1, script |-> FALSE,
     gen |-> [name \in KbNames |-> <<Text(1, 0), Text(1, 1), Text(1, 2), Text(2, 3)>>],
     outs |-> {OkOut(7)},
     scores |-> {<<0, 100, 100>>},
     sigs |-> {Sig({}, {"type"}, <<>>), Sig({"type"}, {"type", "sets"}, <<-2000, -3000>>)},
     expected |-> {None}]

\* an evaluator free in its scores and signals
EvalProfile ==
    [name |-> "eval", n_iterations |-> EvalIter, calls |-> 1, script |-> TRUE,
     gen |-> OneText,
     outs |-> {OkOut(7)},
     scores |-> {<<80, 80, 80>>, <<0, 100, 100>>, <<0, 0, 0>>},
     sigs |-> {Sig({}, {}, <<>>), Sig({"type"}, {"sets"}, <<-1500>>),
               Sig({"type", "sets"}, {"type"}, <<-2000, -3000>>)},
     expected |-> {None}]

\* a generator that keeps answering new texts for the second layer, and an
\* evaluator that keeps flagging the first
CapProfile ==
    [name |-> "cap", n_iterations |-> CapIter, calls |-> 1, script |-> TRUE,
     gen |-> [OneText EXCEPT !["sets"] = [j \in 1..NumTexts |-> Text(j, 0)]],
     outs |-> {OkOut(7)},
     scores |-> {<<80, 80, 80>>},
     sigs |-> {Sig({"type"}, {}, <<-2500>>)},
     expected |-> {None}]

\* one branch simulated again and again, each time with new guidance
LongProfile ==
    [name |-> "long", n_iterations |-> LongIter, calls |-> 1, script |-> TRUE,
     gen |-> OneText,
     outs |-> {Failed},
     scores |-> {<<0, 100, 100>>},
     sigs |-> {Sig({"type"}, {"type"}, <<-2500>>)},
     expected |-> {None}]

\* one chain grown down to the last layer
DeepProfile ==
    [name |-> "deep", n_iterations |-> DeepIter, calls |-> 1, script |-> TRUE,
     gen |-> OneText,
     outs |-> {Failed, OkOut(7)},
     scores |-> {<<80, 80, 80>>},
     sigs |-> {Sig({}, {}, <<>>), Sig({"sets"}, {}, <<-1500>>),
               Sig({"sets"}, {}, <<-2500>>)},
     expected |-> {None}]

\* several search() calls on the one object
CallsProfile ==
    [name |-> "calls", n_iterations |-> 2, calls |-> MaxCalls, script |-> TRUE,
     gen |-> OneText,
     outs |-> {TimedOut, OkOut(42), OkOut(7)},
     scores |-> {<<80, 80, 80>>},
     sigs |-> {Sig({}, {}, <<>>), Sig({"type"}, {"type", "sets"}, <<-2500>>)},
     expected |-> {None, Some(42)}]

\* a root with three children, of rewards that differ
WideProfile ==
    [name |-> "wide", n_iterations |-> WideIter, calls |-> 1, script |-> TRUE,
     gen |-> [OneText EXCEPT !["type"] = <<Text(1, 0), Text(2, 0), Text(3, 0)>>],
     outs |-> {OkOut(7)},
     scores |-> {<<80, 80, 80>>, <<0, 0, 0>>},
     sigs |-> {Sig({}, {}, <<>>)},
     expected |-> {None}]

\* two search() calls on the one object, with a generator whose answer is a
\* function of its prompt (see Candidates)
ReplayProfile ==
    [name |-> "replay", n_iterations |-> 3, calls |-> 2, script |-> TRUE,
     gen |-> OneText,
     outs |-> {Failed, OkOut(7)},
     scores |-> {<<0, 100, 100>>},
     sigs |-> {Sig({}, {}, <<>>), Sig({"type"}, {"type", "sets"}, <<-2500>>)},
     expected |-> {None}]

\* a generator that answers near copies, of one another and of texts it
\* gave before, for the second layer; the evaluator keeps flagging the first
DupProfile ==
    [name |-> "dup", n_iterations |-> DupIter, calls |-> 1, script |-> TRUE,
     gen |-> [OneText EXCEPT !["sets"] =
                 <<Text(1, 1), Text(2, 0), Text(2, 2), Text(1, 0), Text(1, 2), Text(3, 0)>>],
     outs |-> {OkOut(7)},
     scores |-> {<<80, 80, 80>>},
     sigs |-> {Sig({"type"}, {}, <<-2500>>)},
     expected |-> {None}]

\* one chain grown down to the last layer, with one text or with three
\* for the last layer, and iterations left over after that
SkipProfiles ==
    {[name |-> "skip", n_iterations |-> SkipIter, calls |-> 1, script |-> TRUE,
      gen |-> g,
      outs |-> {OkOut(7)},
      scores |-> {<<80, 80, 80>>},
      sigs |-> {Sig({}, {}, <<>>)},
      expected |-> {None}] :
        g \in {OneText,
               [OneText EXCEPT !["constraints"] = <<Text(1, 0), Text(2, 0), Text(3, 0)>>]}}

\* two search() calls interleaved, on one MCTS object (shared) or on one
\* object each; the generator answers by what its prompt shows
PairProfiles ==
    {[name |-> "pair", n_iterations |-> PairIter,
      calls |-> IF shared THEN 2 ELSE 1, script |-> TRUE, shared |-> shared,
      gen |-> OneText,
      outs |-> {OkOut(7)},
      scores |-> {<<80, 80, 80>>},
      sigs |-> {Sig({}, {}, <<>>), Sig({"type"}, {"type"}, <<-2500>>)},
      expected |-> {None}] : shared \in BOOLEAN}

Profiles ==
    OutsProfiles \cup SkipProfiles \cup {GenProfile, EvalProfile, CapProfile, LongProfile, DeepProfile,
                       CallsProfile, WideProfile, ReplayProfile, DupProfile}

\* ------------------------------------------------------------- tree

\* MCTSNode(problem, layer, content, parent)
MCTSNode(layer, content, parent) ==
    [layer |-> layer, content |-> content, parent |-> parent,
     visits |-> 0, value |-> 0, trigger |-> FALSE, local_uncertainty |-> 0,
     result |-> NoResult]

EmptyKb == [name \in KbNames |-> <<>>]

NoSim == [reward |-> 0, result |-> NoResult, global_u |-> 0,
          signals |-> GetAllReasoningSignals(<<>>, <<>>)]

NoRet == [kind |-> "none", result |-> NoResult]

\* runs: the loop index, reward and execution result of every iteration
\* that reached SIMULATE, in order; skipped: the iterations that did not;
\* prompted: the search() calls whose advice went into a generation prompt;
\* left: how many guidance texts the knowledge base held when search() began;
\* picks: what _select and _expand chose and what the collaborators answered,
\* iteration by iteration; trees: the tree after each iteration; first: the
\* picks, trees, argument and end of the search() call before this one;
\* own: the guidance this search() has itself put into the knowledge base;
\* asked: the candidates the generator gave to the latest _expand, if
\* that was the _expand of a node Dynamic Expansion had stopped at
NoFirst == [picks |-> <<>>, trees |-> <<>>, expected |-> None, ret |-> NoRet]

NoHist == [runs |-> <<>>, skipped |-> 0, prompted |-> {}, left |-> 0,
           picks |-> <<>>, trees |-> <<>>, first |-> NoFirst, own |-> EmptyKb,
           asked |-> <<>>]

\* the profile whose searches are recorded pick by pick
Logged == cfg.name = "replay"

\* no _generate_and_execute and no _retry_api_call running.  attempt: the
\* loop variable; prompts: the generator calls made, by kind of prompt;
\* results: what the executions returned, in order; calls, delays: the
\* calls of the wrapped function, by how each ended, and the sleeps; error:
\* the exception the wrapper let through
NoLoop == [attempt |-> 0, prompts |-> <<>>, results |-> <<>>,
           calls |-> <<>>, delays |-> <<>>, error |-> "none"]

\* a search() not yet called, on an object just constructed
NotStarted ==
    [pc |-> "idle", i |-> 0, expected_answer |-> None, nodes |-> <<>>,
     best_result |-> Sentinel, found_correct |-> FALSE, node |-> 0, child |-> 0,
     sim |-> NoSim, ret |-> NoRet, hist |-> NoHist, kb |-> EmptyKb, calls |-> 0]

\* MCTS.__init__
Init ==
    /\ cfg \in Profiles
    /\ calls = 0
    /\ pc = "idle"
    /\ i = 0
    /\ expected_answer = None
    /\ nodes = <<>>
    /\ kb = EmptyKb
    /\ best_result = Sentinel
    /\ found_correct = FALSE
    /\ node = 0
    /\ child = 0
    /\ sim = NoSim
    /\ ret = NoRet
    /\ hist = NoHist
    /\ other = NotStarted
    /\ loop = NoLoop

Root == 1

ChildSet(n) == {c \in 1..Len(nodes) : nodes[c].parent = n}

IsLeaf(n) == ChildSet(n) = {}
IsRoot(n) == nodes[n].parent = 0
IsComplete(n) == nodes[n].layer = LastLayer

ElementName(n) ==
    IF 0 <= nodes[n].layer /\ nodes[n].layer < Len(LAYER_NAMES)
    THEN LAYER_NAMES[nodes[n].layer + 1]
    ELSE "unknown"

\* a walk that ends at the parent of the simulated node
PathToParent(n) ==
    IF n = 0 THEN {}
    ELSE IF nodes[n].parent = 0 THEN {n}
    ELSE {n, nodes[n].parent}

\* the node and its ancestors up to the root
RECURSIVE PathToRoot(_)
PathToRoot(n) == IF n = 0 THEN {} ELSE {n} \cup PathToRoot(nodes[n].parent)

Unvisited(n) == {c \in ChildSet(n) : nodes[c].visits = 0}

\* float("inf")
Infinity == 1073741823

\* a score that gives an unvisited node its value, which is 0
Ucb1NoInfinity(c) ==
    IF nodes[c].visits = 0 THEN nodes[c].value
    ELSE nodes[c].value
         + ExplorationC
           * ISqrt((2 * LnMilli[nodes[nodes[c].parent].visits]
                      * ((Scale * Scale) \div 1000)) \div nodes[c].visits)

\* MCTSNode.ucb1: value + C * sqrt(2 * ln(parent.visits) / visits)
Ucb1(c) ==
    IF nodes[c].visits = 0 THEN Infinity
    ELSE nodes[c].value
         + ExplorationC
           * ISqrt((2 * LnMilli[nodes[nodes[c].parent].visits]
                      * ((Scale * Scale) \div 1000)) \div nodes[c].visits)

\* max(node.children, key=ucb1): the first child of the highest score
ArgMaxUcb(n) ==
    CHOOSE c \in ChildSet(n) :
        \A d \in ChildSet(n) :
            Ucb1(c) > Ucb1(d) \/ (Ucb1(c) = Ucb1(d) /\ c <= d)

\* a Dynamic Expansion test that takes the threshold itself as exceeded
DynamicExpansionAtEta(n) ==
    /\ ~IsRoot(n) /\ ~IsLeaf(n) /\ ~IsComplete(n)
    /\ nodes[n].trigger
    /\ nodes[n].local_uncertainty >= Eta

\* the Dynamic Expansion test of _select
DynamicExpansion(n) ==
    /\ ~IsRoot(n) /\ ~IsLeaf(n) /\ ~IsComplete(n)
    /\ nodes[n].trigger
    /\ nodes[n].local_uncertainty > Eta

\* a walk that may step back from a complete node it has visited, to the
\* node's parent
RECURSIVE SelectFromBacksUp(_)
SelectFromBacksUp(n) ==
    IF DynamicExpansion(n) THEN {n}
    ELSE IF IsLeaf(n)
    THEN IF IsComplete(n) /\ nodes[n].visits > 0 THEN {n, nodes[n].parent} ELSE {n}
    ELSE IF Unvisited(n) # {} THEN Unvisited(n)
    ELSE SelectFromBacksUp(ArgMaxUcb(n))

\* _select(n): the nodes the walk from n may return (random.choice picks
\* among the unvisited children)
RECURSIVE SelectFrom(_)
SelectFrom(n) ==
    IF DynamicExpansion(n) THEN {n}
    ELSE IF IsLeaf(n) THEN {n}
    ELSE IF Unvisited(n) # {} THEN Unvisited(n)
    ELSE SelectFrom(ArgMaxUcb(n))

\* ---------------------------------------------------------- pruning

\* _prune_similar, candidates left to right
RECURSIVE PruneLoop(_, _)
PruneLoop(candidates, pruned) ==
    IF candidates = <<>> THEN pruned
    ELSE LET c == Head(candidates)
         IN  IF \E j \in 1..Len(pruned) : Similarity(c, pruned[j]) > Threshold
             THEN PruneLoop(Tail(candidates), pruned)
             ELSE PruneLoop(Tail(candidates), Append(pruned, c))

\* a pruner that compares each candidate with the one before it only
RECURSIVE NeighbourLoop(_, _, _)
NeighbourLoop(candidates, before, pruned) ==
    IF candidates = <<>> THEN pruned
    ELSE LET c == Head(candidates)
         IN  IF before # <<>> /\ Similarity(c, before[1]) > Threshold
             THEN NeighbourLoop(Tail(candidates), <<c>>, pruned)
             ELSE NeighbourLoop(Tail(candidates), <<c>>, Append(pruned, c))

PruneSimilarToNeighbour(candidates) == NeighbourLoop(candidates, <<>>, <<>>)

\* _prune_similar; candidates[:1] of no candidates is the empty list
PruneSimilar(candidates) ==
    LET pruned == PruneLoop(candidates, <<>>)
    IN  IF pruned # <<>> THEN pruned
        ELSE SubSeq(candidates, 1, Min(1, Len(candidates)))

\* the attach loop without its test of the cap
RECURSIVE AttachLoopNoCap(_, _, _, _)
AttachLoopNoCap(candidates, n_children, existing, new) ==
    IF candidates = <<>> THEN new
    ELSE LET content == Head(candidates)
         IN  IF \E e \in existing : Similarity(content, e) > Threshold
             THEN AttachLoopNoCap(Tail(candidates), n_children, existing, new)
             ELSE AttachLoopNoCap(Tail(candidates), n_children + 1,
                                  existing \cup {content}, Append(new, content))

\* an attach loop that takes any resemblance at all for a duplicate
RECURSIVE AttachLoopLowThreshold(_, _, _, _)
AttachLoopLowThreshold(candidates, n_children, existing, new) ==
    IF candidates = <<>> THEN new
    ELSE IF n_children >= MAX_CHILDREN THEN new
    ELSE LET content == Head(candidates)
         IN  IF \E e \in existing : Similarity(content, e) > 0
             THEN AttachLoopLowThreshold(Tail(candidates), n_children, existing, new)
             ELSE AttachLoopLowThreshold(Tail(candidates), n_children + 1,
                                         existing \cup {content}, Append(new, content))

\* an attach loop that does not look at the children the node has
RECURSIVE AttachLoopNoDedup(_, _, _, _)
AttachLoopNoDedup(candidates, n_children, existing, new) ==
    IF candidates = <<>> THEN new
    ELSE IF n_children >= MAX_CHILDREN THEN new
    ELSE AttachLoopNoDedup(Tail(candidates), n_children + 1,
                           existing \cup {Head(candidates)}, Append(new, Head(candidates)))

\* the attach loop of _expand: the contents that become new children, given
\* the number of children so far and the contents seen so far
RECURSIVE AttachLoop(_, _, _, _)
AttachLoop(candidates, n_children, existing, new) ==
    IF candidates = <<>> THEN new
    ELSE IF n_children >= MAX_CHILDREN THEN new
    ELSE LET content == Head(candidates)
         IN  IF \E e \in existing : Similarity(content, e) > Threshold
             THEN AttachLoop(Tail(candidates), n_children, existing, new)
             ELSE AttachLoop(Tail(candidates), n_children + 1,
                             existing \cup {content}, Append(new, content))

\* ---------------------------------------------------- knowledge base

LastN(s, n) == SubSeq(s, Max(1, Len(s) - n + 1), Len(s))

\* the append without the trim
KbInsertNoTrim(list, guidance) == Append(list, guidance)

\* the append with a trim that keeps the oldest entries
KbInsertKeepOldest(list, guidance) ==
    LET appended == Append(list, guidance)
    IN  IF Len(appended) > KbCap THEN SubSeq(appended, 1, KbKeep) ELSE appended

\* one append of _backpropagate, with its trim
KbInsert(list, guidance) ==
    LET appended == Append(list, guidance)
    IN  IF Len(appended) > KbCap THEN LastN(appended, KbKeep) ELSE appended

\* an update that takes guidance from flagged layers only
KbUpdateFlagged(base, signals) ==
    [name \in KbNames |->
        IF name \in DOMAIN signals /\ signals[name].guidance # NoAdvice
           /\ signals[name].trigger
        THEN KbInsert(base[name], signals[name].guidance)
        ELSE base[name]]

\* the knowledge base update of _backpropagate
KbUpdate(base, signals) ==
    [name \in KbNames |->
        IF name \in DOMAIN signals /\ signals[name].guidance # NoAdvice
        THEN KbInsert(base[name], signals[name].guidance)
        ELSE base[name]]

\* _gen_element puts guidance_list[-3:] into the prompt: the calls whose
\* advice a prompt for layer `name` shows
PromptCalls(name) == {LastN(kb[name], 3)[j].call : j \in 1..Len(LastN(kb[name], 3))}

\* ---------------------------------------------------------- actions

NoLocals ==
    /\ nodes' = <<>>
    /\ node' = 0
    /\ child' = 0
    /\ sim' = NoSim

\* a search() that keeps the knowledge base of the call before
KbKept(base) == base

\* the knowledge base search() starts with, whatever the object held
KbAtStart(base) == [name \in KbNames |-> <<>>]

\* search(), up to the loop: the knowledge base is reset, the root made
SearchCall ==
    /\ pc = "idle"
    /\ calls < cfg.calls
    /\ calls' = calls + 1
    /\ \E e \in cfg.expected : expected_answer' = e
    /\ kb' = KbAtStart(kb)
    /\ nodes' = <<MCTSNode(0, EmptyText, 0)>>
    /\ best_result' = Sentinel
    /\ found_correct' = FALSE
    /\ i' = 0
    /\ node' = 0
    /\ child' = 0
    /\ sim' = NoSim
    /\ hist' = [NoHist EXCEPT
           !.left = SumSeq([j \in 1..Len(LAYER_NAMES) - 1 |->
                              Len(kb[LAYER_NAMES[j + 1]])]),
           !.first = IF Logged /\ calls > 0
                     THEN [picks |-> hist.picks, trees |-> hist.trees,
                           expected |-> expected_answer, ret |-> ret]
                     ELSE NoFirst]
    /\ pc' = "select"
    /\ UNCHANGED <<cfg, other, loop, ret>>

\* phase 1: node = self._select(root)
Select ==
    /\ pc = "select"
    /\ i < cfg.n_iterations
    /\ \E n \in SelectFrom(Root) : node' = n
    /\ pc' = "expand"
    /\ UNCHANGED <<cfg, other, loop, calls, i, expected_answer, nodes, kb, best_result,
                   found_correct, child, sim, ret, hist>>

\* the guidance lines a prompt for layer `name` shows: guidance_list[-3:]
PromptLines(name) == Len(LastN(kb[name], 3))

\* the three texts the generator answers to the three prompts of _expand;
\* the generator of the replay and pair profiles answers by what its
\* prompt shows
Candidates(name) ==
    IF cfg.name \in {"replay", "pair"}
    THEN {[j \in 1..NumCandidates |-> Text(1 + PromptLines(name), 0)]}
    ELSE IF cfg.script
    THEN {[j \in 1..NumCandidates |->
             cfg.gen[name][((NumCandidates * i + j - 1) % Len(cfg.gen[name])) + 1]]}
    ELSE [1..NumCandidates -> Range(cfg.gen[name])]

\* a fallback that takes any child
OldChildAny(n) == ChildSet(n)

\* the fallback of _expand: an unvisited child, else any child
OldChild(n) == IF Unvisited(n) # {} THEN Unvisited(n) ELSE ChildSet(n)

\* _expand of a node below the cap: the contents it attaches
NewContents(n, candidates) ==
    AttachLoop(PruneSimilar(candidates), Cardinality(ChildSet(n)),
               {nodes[c].content : c \in ChildSet(n)}, <<>>)

\* a child hung under the root, whatever node was expanded
NewChildOfRoot(n, content) == MCTSNode(nodes[n].layer + 1, content, 1)

\* a child made at its parent's layer
NewChildSameLayer(n, content) == MCTSNode(nodes[n].layer, content, n)

\* the child _expand makes of a content
NewChild(n, content) == MCTSNode(nodes[n].layer + 1, content, n)

\* search() is left by an exception: its frame is gone
Raised(kind) ==
    /\ ret' = [kind |-> kind, result |-> NoResult]
    /\ pc' = "idle"
    /\ NoLocals

\* phase 2: child = self._expand(node), and the `continue` on None;
\* random.choice of an empty list raises IndexError
Expand ==
    /\ pc = "expand"
    /\ IF nodes[node].layer + 1 > LastLayer
       THEN /\ i' = i + 1
            /\ pc' = "select"
            /\ hist' = [hist EXCEPT !.skipped = @ + 1]
            /\ UNCHANGED <<nodes, node, child, sim, ret>>
       ELSE IF Cardinality(ChildSet(node)) >= MAX_CHILDREN
       THEN /\ \E c \in OldChild(node) : child' = c
            /\ pc' = "simulate"
            /\ UNCHANGED <<i, nodes, node, sim, ret, hist>>
       ELSE \E candidates \in Candidates(LAYER_NAMES[nodes[node].layer + 2]) :
              LET new == NewContents(node, candidates)
                  grown == nodes \o [j \in 1..Len(new) |-> NewChild(node, new[j])]
              IN  /\ hist' = [hist EXCEPT
                         !.prompted = @ \cup PromptCalls(LAYER_NAMES[nodes[node].layer + 2]),
                         !.asked = IF DynamicExpansion(node) THEN candidates ELSE <<>>]
                  /\ i' = i
                  /\ IF new = <<>> /\ OldChild(node) = {}
                     THEN Raised("IndexError")
                     ELSE /\ nodes' = grown
                          /\ IF new = <<>>
                             THEN \E c \in OldChild(node) : child' = c
                             ELSE \E c \in (Len(nodes) + 1)..Len(grown) : child' = c
                          /\ pc' = "simulate"
                          /\ UNCHANGED <<node, sim, ret>>
    /\ UNCHANGED <<cfg, other, loop, calls, expected_answer, kb, best_result, found_correct>>

\* the layers _complete_formulation generates for a node
RolloutNames(n) == {LAYER_NAMES[l + 1] : l \in (nodes[n].layer + 1)..LastLayer}

\* what the evaluator's one answer says, layer by layer
SignalData(sg) ==
    [name \in sg.trig \cup sg.guide |->
        [trigger |-> name \in sg.trig,
         guidance |-> IF name \in sg.guide THEN Advice(calls, i + 1) ELSE NoAdvice]]

\* phase 3: reward, result, global_u, signals = self._simulate(child, ...)
\* and child.result = result
Simulate ==
    /\ pc = "simulate"
    /\ \E res \in cfg.outs, scores \in cfg.scores, sg \in cfg.sigs :
          /\ Len(scores) = KSamples
          /\ sim' = [reward |-> SimReward(res, scores, expected_answer),
                     result |-> res,
                     global_u |-> ComputeGlobalUncertainty(scores),
                     signals |-> GetAllReasoningSignals(SignalData(sg), sg.logprobs)]
          /\ nodes' = [nodes EXCEPT ![child].result = res]
          /\ hist' = [hist EXCEPT
                 !.runs = Append(@, [i |-> i, result |-> res,
                                     reward |-> SimReward(res, scores, expected_answer)]),
                 !.prompted = @ \cup UNION {PromptCalls(name) : name \in RolloutNames(child)},
                 !.picks = IF Logged
                           THEN Append(@, [node |-> node, child |-> child, result |-> res,
                                           scores |-> scores, sig |-> sg])
                           ELSE @]
    /\ pc' = "backprop"
    /\ UNCHANGED <<cfg, other, loop, calls, i, expected_answer, kb, best_result,
                   found_correct, node, child, ret>>

\* the value update with the reward added instead of the difference
NewValueNoDifference(value, reward, rho, visits) ==
    value + RoundDiv(RoundDiv(rho * reward, Scale), visits)

\* the value update of _backpropagate: Q + rho * (R - Q) / N
NewValue(value, reward, rho, visits) ==
    value + RoundDiv(RoundDiv(rho * (reward - value), Scale), visits)

\* a tree update that sets the flag and never clears it
VisitFlagSticks(n, reward, global_u, signals) ==
    LET visits == nodes[n].visits + 1
        name == ElementName(n)
    IN  [nodes[n] EXCEPT
            !.visits = visits,
            !.value = NewValue(nodes[n].value, reward, ExpNeg(global_u), visits),
            !.trigger = IF name \in DOMAIN signals
                        THEN signals[name].trigger \/ @ ELSE @,
            !.local_uncertainty = IF name \in DOMAIN signals
                                  THEN signals[name].local_uncertainty ELSE @]

\* a tree update that counts every visit twice
VisitTwice(n, reward, global_u, signals) ==
    LET visits == nodes[n].visits + 2
        name == ElementName(n)
    IN  [nodes[n] EXCEPT
            !.visits = visits,
            !.value = NewValue(nodes[n].value, reward, ExpNeg(global_u), visits),
            !.trigger = IF name \in DOMAIN signals
                        THEN signals[name].trigger ELSE @,
            !.local_uncertainty = IF name \in DOMAIN signals
                                  THEN signals[name].local_uncertainty ELSE @]

\* the tree update of _backpropagate, for one node of the path
Visit(n, reward, global_u, signals) ==
    LET visits == nodes[n].visits + 1
        name == ElementName(n)
    IN  [nodes[n] EXCEPT
            !.visits = visits,
            !.value = NewValue(nodes[n].value, reward, ExpNeg(global_u), visits),
            !.trigger = IF name \in DOMAIN signals
                        THEN signals[name].trigger ELSE @,
            !.local_uncertainty = IF name \in DOMAIN signals
                                  THEN signals[name].local_uncertainty ELSE @]

\* phase 4: self._backpropagate(child, reward, global_u, signals)
Backpropagate ==
    /\ pc = "backprop"
    /\ kb' = KbUpdate(kb, sim.signals)
    /\ nodes' = [n \in 1..Len(nodes) |->
                    IF n \in PathToRoot(child)
                    THEN Visit(n, sim.reward, sim.global_u, sim.signals)
                    ELSE nodes[n]]
    /\ hist' = [hist EXCEPT !.trees = IF Logged THEN Append(@, nodes') ELSE @,
                            !.own = KbUpdate(@, sim.signals)]
    /\ pc' = "track"
    /\ UNCHANGED <<cfg, other, loop, calls, i, expected_answer, best_result,
                   found_correct, node, child, sim, ret>>

\* a search() that never leaves its loop early
EarlyExitNever(reward, found) == FALSE

\* a fallback that a later success overwrites
FallbackOverwrites(result, best, found) == result.success /\ ~found

\* a fallback that takes a failed execution too
FallbackAnyResult(result, best, found) == ~found /\ ~best.success

\* if reward >= 1.0 and not found_correct
EarlyExit(reward, found) == reward >= Scale /\ ~found

\* if result.get("success") and not found_correct: if not best_result.get("success")
Fallback(result, best, found) == result.success /\ ~found /\ ~best.success

\* "Track best result": the early exit, the first-success fallback, and
\* the step to the next iteration
Track ==
    /\ pc = "track"
    /\ IF EarlyExit(sim.reward, found_correct)
       THEN /\ best_result' = sim.result
            /\ found_correct' = TRUE
            /\ pc' = "return"
            /\ i' = i
       ELSE /\ best_result' = IF Fallback(sim.result, best_result, found_correct)
                              THEN sim.result ELSE best_result
            /\ found_correct' = found_correct
            /\ pc' = "select"
            /\ i' = i + 1
    /\ UNCHANGED <<cfg, other, loop, calls, expected_answer, nodes, kb, node, child,
                   sim, ret, hist>>

\* return best_result, after the loop or after the break
Return ==
    /\ \/ pc = "return"
       \/ pc = "select" /\ i >= cfg.n_iterations
    /\ ret' = [kind |-> "returned", result |-> best_result]
    /\ pc' = "idle"
    /\ NoLocals
    /\ UNCHANGED <<cfg, other, loop, calls, i, expected_answer, kb, best_result,
                   found_correct, hist>>

\* a generator or evaluator call of _expand or _simulate raises: search()
\* is left by the exception, which __main__ catches
Raise ==
    /\ \/ /\ pc = "expand"
          /\ nodes[node].layer + 1 <= LastLayer
          /\ Cardinality(ChildSet(node)) < MAX_CHILDREN
          /\ hist' = [hist EXCEPT !.prompted =
                 @ \cup PromptCalls(LAYER_NAMES[nodes[node].layer + 2])]
       \/ /\ pc = "simulate"
          /\ hist' = [hist EXCEPT !.prompted =
                 @ \cup UNION {PromptCalls(name) : name \in RolloutNames(child)}]
    /\ Raised("raised")
    /\ UNCHANGED <<cfg, other, loop, calls, i, expected_answer, kb, best_result,
                   found_correct>>

Next ==
    \/ SearchCall
    \/ Select
    \/ Expand
    \/ Simulate
    \/ Backpropagate
    \/ Track
    \/ Return
    \/ Raise

Spec == Init /\ [][Next]_vars

\* a knowledge base that every MCTS object shares
KnowledgeBaseGlobal(shared, running, resumed) == running

\* self.knowledge_base as the resumed search() finds it: what the running
\* search() leaves if both are calls on one object, its own object's if not
KnowledgeBaseOf(shared, running, resumed) == IF shared THEN running ELSE resumed

\* the running search() blocks in a collaborator call (the last one of
\* _expand or of _simulate) or has ended, and the other search() goes on
Switch ==
    /\ pc \in {"simulate", "backprop", "idle"}
    /\ pc' = other.pc
    /\ i' = other.i
    /\ expected_answer' = other.expected_answer
    /\ nodes' = other.nodes
    /\ best_result' = other.best_result
    /\ found_correct' = other.found_correct
    /\ node' = other.node
    /\ child' = other.child
    /\ sim' = other.sim
    /\ ret' = other.ret
    /\ hist' = other.hist
    /\ kb' = KnowledgeBaseOf(cfg.shared, kb, other.kb)
    /\ calls' = IF cfg.shared THEN calls ELSE other.calls
    /\ other' = [pc |-> pc, i |-> i, expected_answer |-> expected_answer,
                 nodes |-> nodes, best_result |-> best_result,
                 found_correct |-> found_correct, node |-> node, child |-> child,
                 sim |-> sim, ret |-> ret, hist |-> hist, kb |-> kb, calls |-> calls]
    /\ UNCHANGED <<cfg, loop>>

\* two searches, none started
InitPair ==
    /\ cfg \in PairProfiles
    /\ calls = 0
    /\ pc = "idle"
    /\ i = 0
    /\ expected_answer = None
    /\ nodes = <<>>
    /\ kb = EmptyKb
    /\ best_result = Sentinel
    /\ found_correct = FALSE
    /\ node = 0
    /\ child = 0
    /\ sim = NoSim
    /\ ret = NoRet
    /\ hist = NoHist
    /\ other = NotStarted
    /\ loop = NoLoop

NextPair ==
    \/ SearchCall
    \/ Select
    \/ Expand
    \/ Simulate
    \/ Backpropagate
    \/ Track
    \/ Return
    \/ Raise
    \/ Switch

SpecPair == InitPair /\ [][NextPair]_vars

\* the executor's answers to the code of one _generate_and_execute
RepairInputs ==
    {[name |-> "repair", outs |-> outs] :
        outs \in {{Failed, OkNoNumber, OkOut(7)}, {TimedOut, OkDot}}}

InitRepair ==
    /\ cfg \in RepairInputs
    /\ calls = 0
    /\ pc = "code"
    /\ i = 0
    /\ expected_answer = None
    /\ nodes = <<>>
    /\ kb = EmptyKb
    /\ best_result = Sentinel
    /\ found_correct = FALSE
    /\ node = 0
    /\ child = 0
    /\ sim = NoSim
    /\ ret = NoRet
    /\ hist = NoHist
    /\ other = NotStarted
    /\ loop = NoLoop

\* code = call_llm(_CODE_PROMPT ...)
RequestCode ==
    /\ pc = "code"
    /\ loop' = [loop EXCEPT !.prompts = Append(@, "code")]
    /\ pc' = "execute"
    /\ UNCHANGED <<cfg, other, calls, i, expected_answer, nodes, kb, best_result,
                   found_correct, node, child, sim, ret, hist>>

\* result = execute_code(code)
ExecuteCode ==
    /\ pc = "execute"
    /\ \E res \in cfg.outs : loop' = [loop EXCEPT !.results = Append(@, res)]
    /\ pc' = "repair"
    /\ UNCHANGED <<cfg, other, calls, i, expected_answer, nodes, kb, best_result,
                   found_correct, node, child, sim, ret, hist>>

\* a loop that goes round once more
RetriesLeftInclusive(attempt) == attempt <= max_retries

\* for _ in range(max_retries): the loop has another round
RetriesLeft(attempt) == attempt < max_retries

\* one round of the loop up to its call of the generator: break on a valid
\* result, else code = call_llm(_FIX_CODE_PROMPT ...); and the end of the
\* loop after max_retries rounds
RepairCode ==
    /\ pc = "repair"
    /\ IF RetriesLeft(loop.attempt) /\ ~IsValid(loop.results[Len(loop.results)])
       THEN /\ loop' = [loop EXCEPT !.attempt = @ + 1, !.prompts = Append(@, "fix")]
            /\ pc' = "execute"
       ELSE /\ pc' = "result"
            /\ loop' = loop
    /\ UNCHANGED <<cfg, other, calls, i, expected_answer, nodes, kb, best_result,
                   found_correct, node, child, sim, ret, hist>>

\* return result
ReturnResult ==
    /\ pc = "result"
    /\ ret' = [kind |-> "returned", result |-> loop.results[Len(loop.results)]]
    /\ pc' = "done"
    /\ UNCHANGED <<cfg, other, loop, calls, i, expected_answer, nodes, kb,
                   best_result, found_correct, node, child, sim, hist>>

NextRepair ==
    \/ RequestCode
    \/ ExecuteCode
    \/ RepairCode
    \/ ReturnResult

SpecRepair == InitRepair /\ [][NextRepair]_vars

\* the exceptions _retry_api_call catches
Transient == {"RateLimitError", "APITimeoutError", "APIConnectionError"}

\* how a call of the wrapped function can end: with a value, or with an
\* exception, caught or not
CallEnds == {"value"} \cup Transient \cup {"BadRequestError"}

InitRetry ==
    /\ cfg \in {[name |-> "retry", ends |-> CallEnds]}
    /\ calls = 0
    /\ pc = "wrapper"
    /\ i = 0
    /\ expected_answer = None
    /\ nodes = <<>>
    /\ kb = EmptyKb
    /\ best_result = Sentinel
    /\ found_correct = FALSE
    /\ node = 0
    /\ child = 0
    /\ sim = NoSim
    /\ ret = NoRet
    /\ hist = NoHist
    /\ other = NotStarted
    /\ loop = NoLoop

RECURSIVE Pow2(_)
Pow2(n) == IF n = 0 THEN 1 ELSE 2 * Pow2(n - 1)

\* a delay that stays the base delay
DelayConstant(attempt) == BASE_DELAY

\* delay = BASE_DELAY * (2 ** attempt)
Delay(attempt) == BASE_DELAY * Pow2(attempt)

\* one round of the loop of wrapper: the call, and on one of the caught
\* exceptions the sleep; a value is returned, another exception goes through
Attempt ==
    /\ pc = "wrapper"
    /\ loop.attempt < MAX_RETRIES
    /\ \E end \in cfg.ends :
          /\ loop' = [loop EXCEPT
                 !.calls = Append(@, end),
                 !.attempt = IF end \in Transient THEN @ + 1 ELSE @,
                 !.delays = IF end \in Transient THEN Append(@, Delay(loop.attempt)) ELSE @,
                 !.error = IF end \in Transient \/ end = "value" THEN @ ELSE end]
          /\ pc' = IF end \in Transient THEN "wrapper"
                   ELSE IF end = "value" THEN "returned" ELSE "raised"
    /\ UNCHANGED <<cfg, other, calls, i, expected_answer, nodes, kb, best_result,
                   found_correct, node, child, sim, ret, hist>>

\* the call after the loop: whatever it raises goes through
FinalAttempt ==
    /\ pc = "wrapper"
    /\ loop.attempt >= MAX_RETRIES
    /\ \E end \in cfg.ends :
          /\ loop' = [loop EXCEPT !.calls = Append(@, end),
                                  !.error = IF end = "value" THEN @ ELSE end]
          /\ pc' = IF end = "value" THEN "returned" ELSE "raised"
    /\ UNCHANGED <<cfg, other, calls, i, expected_answer, nodes, kb, best_result,
                   found_correct, node, child, sim, ret, hist>>

NextRetry ==
    \/ Attempt
    \/ FinalAttempt

SpecRetry == InitRetry /\ [][NextRetry]_vars

\* the scores an evaluator answer can hold, after the clamp to 0..100
ScoreValues == {0, 1, 50, 80, 100}

ScoreLists == UNION {[1..k -> ScoreValues] : k \in 0..MaxK}

\* execution results: failed, timed out, failed after printing a number,
\* and successful with and without a number
Outcomes ==
    {Failed, TimedOut, Result(FALSE, <<Num(42)>>, "Traceback"),
     OkOut(42), OkOut(40), OkOut(7), OkOut(0), OkNoNumber, OkDot}

\* the arguments of one _simulate and the answers it gets: an execution
\* result, the sampled scores, the expected answer
FnInputs ==
    {[name |-> "fn", scores |-> sc, result |-> r, expected |-> e] :
        sc \in ScoreLists, r \in Outcomes, e \in {None, Some(42), Some(0)}}

InitFn ==
    /\ cfg \in FnInputs
    /\ calls = 0
    /\ pc = "scores"
    /\ i = 0
    /\ expected_answer = cfg.expected
    /\ nodes = <<>>
    /\ kb = EmptyKb
    /\ best_result = Sentinel
    /\ found_correct = FALSE
    /\ node = 0
    /\ child = 0
    /\ sim = NoSim
    /\ ret = NoRet
    /\ hist = NoHist
    /\ other = NotStarted
    /\ loop = NoLoop

\* global_u = compute_global_uncertainty(scores)
GlobalU ==
    /\ pc = "scores"
    /\ sim' = [sim EXCEPT !.global_u = ComputeGlobalUncertainty(cfg.scores)]
    /\ pc' = "global_u"
    /\ UNCHANGED <<cfg, other, loop, calls, i, expected_answer, nodes, kb, best_result,
                   found_correct, node, child, ret, hist>>

\* the reward of _simulate, formula and override; the mean of no scores
\* is a division by zero
Reward ==
    /\ pc = "global_u"
    /\ Len(cfg.scores) > 0
    /\ sim' = [sim EXCEPT !.reward = SimReward(cfg.result, cfg.scores, expected_answer),
                          !.result = cfg.result]
    /\ pc' = "reward"
    /\ UNCHANGED <<cfg, other, loop, calls, i, expected_answer, nodes, kb, best_result,
                   found_correct, node, child, ret, hist>>

NextFn ==
    \/ GlobalU
    \/ Reward

SpecFn == InitFn /\ [][NextFn]_vars

\* the texts given to the pruner by itself
PruneTexts == {Text(1, 0), Text(2, 0), Text(3, 0)}

\* the ratios of those texts: any table of values at and above the
\* threshold, symmetric or not, 100 for a text and itself or not
Ratios == [PruneTexts -> [PruneTexts -> {80, 95}]]

CandidateLists == UNION {[1..k -> PruneTexts] : k \in 0..MaxCand}

PruneInputs ==
    {[name |-> "prune", ratio |-> r, candidates |-> c] :
        r \in Ratios, c \in CandidateLists}

InitPrune ==
    /\ cfg \in PruneInputs
    /\ calls = 0
    /\ pc = "candidates"
    /\ i = 0
    /\ expected_answer = None
    /\ nodes = <<>>
    /\ kb = EmptyKb
    /\ best_result = Sentinel
    /\ found_correct = FALSE
    /\ node = 0
    /\ child = 0
    /\ sim = NoSim
    /\ ret = NoRet
    /\ hist = NoHist
    /\ other = NotStarted
    /\ loop = NoLoop

\* candidates = _prune_similar(candidates, threshold=0.8)
Prune ==
    /\ pc = "candidates"
    /\ loop' = [loop EXCEPT !.results = <<PruneSimilar(cfg.candidates)>>]
    /\ pc' = "pruned"
    /\ UNCHANGED <<cfg, other, calls, i, expected_answer, nodes, kb, best_result,
                   found_correct, node, child, sim, ret, hist>>

\* _prune_similar applied to what it returned
PruneAgain ==
    /\ pc = "pruned"
    /\ loop' = [loop EXCEPT !.results = Append(@, PruneSimilar(loop.results[1]))]
    /\ pc' = "pruned again"
    /\ UNCHANGED <<cfg, other, calls, i, expected_answer, nodes, kb, best_result,
                   found_correct, node, child, sim, ret, hist>>

NextPrune ==
    \/ Prune
    \/ PruneAgain

SpecPrune == InitPrune /\ [][NextPrune]_vars

\* _expand inside search(), and its pruner by itself under any ratios
InitSiblings == Init \/ InitPrune

NextSiblings ==
    \/ Next
    \/ NextPrune

SpecSiblings == InitSiblings /\ [][NextSiblings]_vars

\* ----------------------------------------------------------- claims

\* C1 (value boundedness): every node of the tree has 0 <= value <= 1,
\* after any sequence of backpropagations.
ValueBounded ==
    \A n \in 1..Len(nodes) : 0 <= nodes[n].value /\ nodes[n].value <= Scale

\* a node updated at least twice, the last time under a positive global
\* uncertainty, holds a value strictly between 0 and 1
ValueBoundedWitness ==
    /\ pc = "track"
    /\ sim.global_u > 0
    /\ \E n \in 1..Len(nodes) :
          nodes[n].visits >= 2 /\ 0 < nodes[n].value /\ nodes[n].value < Scale

\* C2 (child cap): no node ever has more than MAX_CHILDREN children.
ChildCap ==
    \A n \in 1..Len(nodes) : Cardinality(ChildSet(n)) <= MAX_CHILDREN

\* Dynamic Expansion has stopped at a node that already has MAX_CHILDREN
\* children, and _expand runs on it again
ChildCapWitness ==
    /\ pc = "simulate"
    /\ Cardinality(ChildSet(node)) = MAX_CHILDREN
    /\ nodes[node].visits >= 3

\* C3 (layer monotonicity): a tree has exactly one root, at layer 0; every
\* other node is one layer below its parent; layers are 0..6; a node of
\* layer 6 has no child.
LayerMonotone ==
    nodes # <<>> =>
        /\ nodes[1].parent = 0 /\ nodes[1].layer = 0
        /\ \A n \in 2..Len(nodes) :
              /\ nodes[n].parent \in 1..Len(nodes)
              /\ nodes[n].layer = nodes[nodes[n].parent].layer + 1
        /\ \A n \in 1..Len(nodes) :
              /\ nodes[n].layer \in 0..6
              /\ nodes[n].layer = 6 => ~\E c \in 1..Len(nodes) : nodes[c].parent = n

\* _select has returned a visited node of layer 6, which _expand is asked
\* to expand
LayerMonotoneWitness ==
    /\ pc = "expand"
    /\ nodes[node].layer = 6
    /\ nodes[node].visits > 0

\* C4 (knowledge base cap): every layer's guidance list has at most 20
\* entries.
KbCapped == \A name \in KbNames : Len(kb[name]) <= 20

\* a list that reached 20 entries has taken one more and was trimmed
KbCappedWitness ==
    /\ pc = "track"
    /\ Len(hist.runs) = 21
    /\ Len(kb["type"]) = 10

\* what one backpropagation does to every layer's guidance list
KbTrimStep ==
    \A name \in KbNames :
        LET g == sim.signals[name].guidance
            old == kb[name]
            new == kb'[name]
        IN  IF g = NoAdvice THEN new = old
            ELSE IF Len(old) + 1 > 20
            THEN /\ Len(new) = 10
                 /\ new[10] = g
                 /\ \A j \in 1..9 : new[j] = old[Len(old) - 9 + j]
            ELSE /\ Len(new) = Len(old) + 1
                 /\ new[Len(new)] = g
                 /\ \A j \in 1..Len(old) : new[j] = old[j]

\* C5 (knowledge base trim): a backpropagation leaves a layer's list alone
\* when the layer's signal has no guidance; otherwise it appends the guidance,
\* and if that makes more than 20 entries the new list has exactly 10: the
\* last 10 of the appended list, in order, the new guidance last.
KbTrim == [][pc = "backprop" => KbTrimStep]_vars

\* the 21st insertion has happened: the list holds the advice of iterations
\* 12 to 21
KbTrimWitness ==
    /\ pc = "track"
    /\ Len(kb["type"]) = 10
    /\ kb["type"][1].iter = 12
    /\ kb["type"][10].iter = 21

\* C6 (knowledge base reset): a search() call starts with every guidance
\* list empty, and no generation prompt of a call shows guidance of an
\* earlier call, even after a call that an exception ended.
KbReset ==
    /\ (pc = "select" /\ i = 0) => \A name \in KbNames : kb[name] = <<>>
    /\ pc # "idle" =>
          \A name \in KbNames : \A j \in 1..Len(kb[name]) : kb[name][j].call = calls
    /\ hist.prompted \subseteq {calls}

\* the second call on an object whose first call raised and left guidance
\* behind has put guidance into a prompt
KbResetWitness ==
    /\ calls = 2
    /\ hist.left > 0
    /\ ret.kind = "raised"
    /\ hist.prompted = {2}

\* C7 (early exit): once an iteration has produced reward >= 1.0, no later
\* iteration had a reward that high before it, search() runs no further
\* phase of any iteration and returns that iteration's execution result; with
\* an executor whose every result matches the expected answer exactly one
\* iteration runs.
EarlyExitHolds ==
    LET n == Len(hist.runs)
        all_match == \A j \in 1..n :
                        /\ expected_answer.some
                        /\ hist.runs[j].result.success
                        /\ \E t \in 1..Len(hist.runs[j].result.output) :
                              hist.runs[j].result.output[t] = Num(expected_answer.val)
    IN  /\ (n > 0 /\ hist.runs[n].reward >= Scale) =>
              /\ \A j \in 1..(n - 1) : hist.runs[j].reward < Scale
              /\ pc \in {"backprop", "track", "return", "idle"}
              /\ i = hist.runs[n].i
              /\ pc = "return" => best_result = hist.runs[n].result
              /\ pc = "idle" =>
                    ret = [kind |-> "returned", result |-> hist.runs[n].result]
        /\ (n > 0 /\ all_match) => (n = 1 /\ hist.skipped = 0)

\* a search whose first iteration stored a fallback success has returned
\* the result of its second iteration, whose reward was 1.0
EarlyExitWitness ==
    /\ pc = "idle"
    /\ cfg.n_iterations = 3
    /\ Len(hist.runs) = 2
    /\ hist.runs[1].result.success
    /\ hist.runs[2].reward = Scale
    /\ ret.result = hist.runs[2].result
    /\ ret.result # hist.runs[1].result

\* the first successful run of the search
FirstSuccess ==
    CHOOSE j \in 1..Len(hist.runs) :
        /\ hist.runs[j].result.success
        /\ \A m \in 1..(j - 1) : ~hist.runs[m].result.success

\* C8 (first-success fallback): a search none of whose iterations reached
\* reward >= 1.0 returns the result of its first iteration whose execution
\* succeeded.
FirstSuccessKept ==
    (/\ pc = "idle"
     /\ ret.kind = "returned"
     /\ \A j \in 1..Len(hist.runs) : hist.runs[j].reward < Scale
     /\ \E j \in 1..Len(hist.runs) : hist.runs[j].result.success)
    => ret.result = hist.runs[FirstSuccess].result

\* a failed iteration, then two successes with different results: the first
\* of the two is returned
FirstSuccessKeptWitness ==
    /\ pc = "idle"
    /\ ret.kind = "returned"
    /\ Len(hist.runs) = 3
    /\ ~hist.runs[1].result.success
    /\ hist.runs[2].result.success
    /\ hist.runs[3].result.success
    /\ hist.runs[3].result # hist.runs[2].result
    /\ hist.runs[3].reward < Scale
    /\ ret.result = hist.runs[2].result

\* C9 (sentinel result): search() returns the sentinel failure exactly when
\* no simulated iteration had a successful execution, also with
\* n_iterations = 0; and search() itself never raises: it ends by returning
\* unless a collaborator call raised.
SentinelIffNoSuccess ==
    /\ (pc = "idle" /\ ret.kind = "returned") =>
          ((/\ ~ret.result.success
            /\ ret.result.error = "No solution found")
           <=> \A j \in 1..Len(hist.runs) : ~hist.runs[j].result.success)
    /\ ret.kind \in {"none", "returned", "raised"}
    /\ (pc = "select" /\ i >= cfg.n_iterations /\ hist.runs = <<>>) =>
          best_result = [success |-> FALSE, output |-> <<>>,
                         error |-> "No solution found"]

\* a search all of whose three executions failed has returned the sentinel
SentinelWitness ==
    /\ pc = "idle"
    /\ ret.kind = "returned"
    /\ Len(hist.runs) = 3
    /\ \A j \in 1..3 : ~hist.runs[j].result.success
    /\ ret.result.error = "No solution found"

\* the ancestors of a node, the node not among them
Above(n) == PathToRoot(n) \ {n}

\* C10 (Dynamic Expansion stop): _select never walks past a node that is
\* not the root, has a child, is not complete, has trigger = true and
\* local_uncertainty > eta = 0.3; and it returns a node that has children
\* only if the node is such a node.
DynamicExpansionStops ==
    pc = "expand" =>
        /\ \A a \in Above(node) :
              ~(/\ nodes[a].parent # 0
                /\ \E c \in 1..Len(nodes) : nodes[c].parent = a
                /\ nodes[a].layer < 6
                /\ nodes[a].trigger
                /\ 10 * nodes[a].local_uncertainty > 3 * Scale)
        /\ (\E c \in 1..Len(nodes) : nodes[c].parent = node) =>
              /\ nodes[node].parent # 0
              /\ nodes[node].layer < 6
              /\ nodes[node].trigger
              /\ 10 * nodes[node].local_uncertainty > 3 * Scale

\* _select has stopped at a flagged node that has children, having walked
\* past an expanded node above it whose uncertainty is as high but whose
\* trigger is false
DynamicExpansionWitness ==
    /\ pc = "expand"
    /\ \E c \in 1..Len(nodes) : nodes[c].parent = node
    /\ nodes[node].trigger
    /\ nodes[node].local_uncertainty > Eta
    /\ \E a \in Above(node) :
          /\ nodes[a].parent # 0
          /\ ~nodes[a].trigger
          /\ nodes[a].local_uncertainty > Eta

\* the child of a through which the walk from the root reaches n
PathChild(a, n) == CHOOSE c \in PathToRoot(n) : nodes[c].parent = a

\* C11 (UCB priority): a node with visits = 0 scores above every node with
\* visits > 0; and when _select has returned, every node it walked through
\* that has a child with visits = 0 was left for one of those children, which
\* _select returned: it went on by the highest score only below nodes all of
\* whose children have visits >= 1.
UcbPriority ==
    /\ \A d \in {e \in 2..Len(nodes) : nodes[e].visits > 0} :
          LET score == Ucb1(d)
          IN  \A c \in {e \in 2..Len(nodes) : nodes[e].visits = 0} :
                  Ucb1(c) > score
    /\ pc = "expand" =>
          \A a \in Above(node) :
              LET c == PathChild(a, node)
                  untried == {u \in 1..Len(nodes) :
                                 nodes[u].parent = a /\ nodes[u].visits = 0}
              IN  /\ untried # {} => (c = node /\ c \in untried)
                  /\ (c # node \/ nodes[c].visits > 0) =>
                        \A u \in 1..Len(nodes) :
                            nodes[u].parent = a => nodes[u].visits >= 1

\* all three children of the root tried once, _select has gone on by the
\* highest score: to a child of a higher value than the first child
UcbPriorityWitness ==
    /\ pc = "expand"
    /\ Cardinality(ChildSet(Root)) = 3
    /\ \A c \in ChildSet(Root) : nodes[c].visits = 1
    /\ Len(hist.runs) = 3
    /\ nodes[node].parent = Root
    /\ \E c \in ChildSet(Root) : c < node /\ nodes[c].value < nodes[node].value

\* the first n iterations of the running search() were picked as those of
\* the search() before it
SamePicks(n) ==
    /\ n <= Len(hist.first.picks)
    /\ expected_answer = hist.first.expected
    /\ \A j \in 1..n : hist.picks[j] = hist.first.picks[j]

\* C12 (deterministic replay): a second search() on the same object, given
\* the same expected answer, the same random choices and the same answers
\* of executor and evaluator, by a generator that answers the same prompt
\* alike, has after every iteration the tree the first had, and returns
\* what the first returned.
Replay ==
    /\ \A n \in 1..Len(hist.trees) :
          SamePicks(n) => hist.trees[n] = hist.first.trees[n]
    /\ (/\ calls = 2 /\ pc = "idle" /\ ret.kind = "returned"
        /\ hist.first.ret.kind = "returned"
        /\ Len(hist.picks) = Len(hist.first.picks)
        /\ SamePicks(Len(hist.picks)))
       => ret = hist.first.ret

\* a second search() has replayed the first, which had left guidance in
\* the knowledge base and had grown two children below one node from
\* prompts that showed different guidance
ReplayWitness ==
    /\ calls = 2 /\ pc = "idle" /\ ret.kind = "returned"
    /\ hist.left > 0
    /\ Len(hist.picks) = 3
    /\ SamePicks(3)
    /\ Len(hist.trees[3]) = 4
    /\ hist.trees[3][3].content # hist.trees[3][4].content
    /\ ret.result.success

\* the knowledge base holds what the running search() itself has put there,
\* whenever that search() reads or writes it; and no node of its tree has a
\* text that the generator gave to a prompt with more guidance lines than
\* the search() itself has produced for the node's layer; and what it
\* returns is the result of its own first successful execution
KbIsOwn ==
    /\ pc \in {"select", "expand", "simulate", "backprop"} =>
          \A name \in KbNames : kb[name] = hist.own[name]
    /\ \A n \in 2..Len(nodes) :
          nodes[n].content.f - 1 <= Len(hist.own[LAYER_NAMES[nodes[n].layer + 1]])
    /\ (pc = "idle" /\ ret.kind = "returned") =>
          ret.result = IF \E j \in 1..Len(hist.runs) : hist.runs[j].result.success
                       THEN hist.runs[FirstSuccess].result
                       ELSE [success |-> FALSE, output |-> <<>>,
                             error |-> "No solution found"]

Matches ==
    /\ cfg.expected.some
    /\ cfg.result.success
    /\ \E j \in 1..Len(cfg.result.output) : cfg.result.output[j].kind \in {"num", "dot"}
    /\ \E j \in 1..Len(cfg.result.output) :
          /\ cfg.result.output[j].kind = "num"
          /\ \A m \in (j + 1)..Len(cfg.result.output) : cfg.result.output[m].kind # "num"
          /\ IF cfg.expected.val # 0
             THEN 10 * Abs(cfg.result.output[j].val - cfg.expected.val) < Abs(cfg.expected.val)
             ELSE cfg.result.output[j].val = 0

\* 1000 * K * (0.1 * feasible + 0.8 * mean(scores) / 100 - 0.1 * error_flag),
\* clamped to [0, 1000 * K]
ClampedFormula ==
    LET k == Len(cfg.scores)
        feasible == IF cfg.result.success THEN 1 ELSE 0
        error_flag == IF cfg.result.success THEN 0 ELSE 1
        raw == 100 * k * feasible + 8 * SumSeq(cfg.scores) - 100 * k * error_flag
    IN  IF raw < 0 THEN 0 ELSE IF raw > 1000 * k THEN 1000 * k ELSE raw

\* C14 (reward formula): when the override does not apply, the reward of
\* K >= 1 scores and an execution result is
\* 0.1 * feasible + 0.8 * mean(scores) / 100 - 0.1 * error_flag clamped to
\* [0, 1]; scores 80, 80, 80 and a successful execution give 0.74; the
\* reward is always in [0, 1].
RewardFormula ==
    pc = "reward" =>
        /\ ~Matches => 1000 * Len(cfg.scores) * sim.reward = Scale * ClampedFormula
        /\ (~Matches /\ cfg.result.success /\ cfg.scores = <<80, 80, 80>>) =>
              100 * sim.reward = 74 * Scale
        /\ 0 <= sim.reward /\ sim.reward <= Scale

\* a failed execution with three scores of 0, where the clamp acts, has
\* got reward 0
RewardFormulaWitness ==
    /\ pc = "reward"
    /\ ~cfg.result.success
    /\ cfg.scores = <<0, 0, 0>>
    /\ sim.reward = 0

\* C15 (ground-truth override): with an expected answer, a valid result and
\* a matching extracted answer the reward is 1.0 whatever the scores;
\* without an expected answer, or with a result that is not valid or does
\* not match, it is the clamped formula's value.
GroundTruthOverride ==
    pc = "reward" =>
        IF Matches THEN sim.reward = Scale
        ELSE 1000 * Len(cfg.scores) * sim.reward = Scale * ClampedFormula

\* scores all 0 and a matching answer have got reward 1.0
GroundTruthOverrideWitness ==
    /\ pc = "reward"
    /\ cfg.scores = <<0, 0, 0>>
    /\ cfg.expected = Some(42)
    /\ cfg.result = OkOut(40)
    /\ sim.reward = Scale

\* n * n * the population variance of the scores
Spread ==
    Len(cfg.scores) * SumSq(cfg.scores) - SumSeq(cfg.scores) * SumSeq(cfg.scores)

\* C16 (global uncertainty): the global uncertainty of a list of scores in
\* 0..100 is min(stddev / 50, 1.0) for the population standard deviation
\* (here to within one step of the fixed-point grid); it is 0 for fewer
\* than 2 scores and for equal scores, lies in [0, 1], and is 1.0 for
\* scores 0, 100.
GlobalUncertainty ==
    pc = "global_u" =>
        LET n == Len(cfg.scores)
            u == sim.global_u
        IN  /\ 0 <= u /\ u <= Scale
            /\ n < 2 => u = 0
            /\ (\A j \in 1..n : cfg.scores[j] = cfg.scores[1]) => u = 0
            /\ cfg.scores = <<0, 100>> => u = Scale
            /\ n >= 2 =>
                  IF Spread >= 2500 * n * n THEN u = Scale
                  ELSE /\ (IF u > 0 THEN (u - 1) * n ELSE 0) * (IF u > 0 THEN (u - 1) * n ELSE 0)
                            <= 14400 * Spread
                       /\ 14400 * Spread <= ((u + 1) * n) * ((u + 1) * n)

\* scores 0, 50, of standard deviation 25, have got global uncertainty 0.5
GlobalUncertaintyWitness ==
    /\ pc = "global_u"
    /\ cfg.scores = <<0, 50>>
    /\ 2 * sim.global_u = Scale

\* an execution result with success and a digit or full stop in its output
ValidResult(r) ==
    r.success /\ \E j \in 1..Len(r.output) : r.output[j].kind \in {"num", "dot"}

\* C17 (repair loop cap): one _generate_and_execute asks the generator for
\* code once and then only for fixes, each after an execution result that
\* is not valid, at most 12 of them; every generator answer is executed;
\* after the first valid result nothing more is called; and what it
\* returns is the result of the last execution, valid or, after the 12th
\* fix, not.
RepairLoopCap ==
    LET p == loop.prompts
        r == loop.results
    IN  /\ \A j \in 1..Len(p) : p[j] = IF j = 1 THEN "code" ELSE "fix"
        /\ Len(p) <= 1 + 12
        /\ Len(r) <= Len(p) /\ Len(p) <= Len(r) + 1
        /\ \A j \in 2..Len(p) : ~ValidResult(r[j - 1])
        /\ \A j \in 1..(Len(r) - 1) : ~ValidResult(r[j])
        /\ pc \in {"result", "done"} =>
              /\ Len(r) = Len(p)
              /\ ValidResult(r[Len(r)]) \/ Len(p) = 1 + 12
        /\ pc = "done" => ret = [kind |-> "returned", result |-> r[Len(r)]]

\* twelve fixes, none of them valid: the thirteenth execution's result,
\* successful but without a number, is returned
RepairLoopCapWitness ==
    /\ pc = "done"
    /\ Len(loop.prompts) = 13
    /\ Len(loop.results) = 13
    /\ ret.result.success
    /\ ~ValidResult(ret.result)

\* what holds of a wrapped call that is attempted at most `total` times:
\* every attempt but the last ended in a rate limit, timeout or connection
\* error and was followed by a sleep, the first of 2 s and each twice the
\* one before; an error goes through when it is of another kind, at once,
\* or when it is that of attempt number `total`
RetryRules(total) ==
    LET transient == {"RateLimitError", "APITimeoutError", "APIConnectionError"}
        n == Len(loop.calls)
    IN  /\ n <= total
        /\ \A j \in 1..(n - 1) : loop.calls[j] \in transient
        /\ Len(loop.delays) =
              Cardinality({j \in 1..n : j < total /\ loop.calls[j] \in transient})
        /\ \A j \in 1..Len(loop.delays) :
              loop.delays[j] = IF j = 1 THEN 2 ELSE 2 * loop.delays[j - 1]
        /\ pc = "raised" =>
              /\ loop.error = loop.calls[n]
              /\ loop.error \notin transient \/ n = total
        /\ pc = "returned" => loop.calls[n] = "value"
        /\ pc = "wrapper" => (n = 0 \/ loop.calls[n] \in transient)

\* C18 as stated: a wrapped call is attempted up to 8 times in total.
BoundedRetryOf8 == RetryRules(8)

\* C18 (bounded retry), amended: a wrapped call is attempted up to 9 times
\* in total, the first attempt and 8 retries, each retry after a transient
\* error and a delay that doubles from the base delay of 2 s; the error of
\* the 9th attempt goes to the caller, and an error that is not transient
\* goes to the caller at once.
BoundedRetry == RetryRules(9)

\* a call that failed with a transient error nine times: eight sleeps, the
\* last of 256 s, and the ninth error has gone to the caller
BoundedRetryWitness ==
    /\ pc = "raised"
    /\ Len(loop.calls) = 9
    /\ loop.error = "APITimeoutError"
    /\ Len(loop.delays) = 8
    /\ loop.delays[8] = 256

\* what one _expand does, unless a generator call raises and ends search()
ExpandStep ==
    LET before == {c \in 1..Len(nodes) : nodes[c].parent = node}
        added == (Len(nodes) + 1)..Len(nodes')
        untried == {c \in before : nodes[c].visits = 0}
    IN  IF nodes[node].layer = 6
        THEN /\ pc' = "select"
             /\ i' = i + 1
             /\ nodes' = nodes /\ kb' = kb
             /\ best_result' = best_result /\ found_correct' = found_correct
             /\ hist'.runs = hist.runs
        ELSE /\ pc' = "simulate"
             /\ i' = i
             /\ child' \in 1..Len(nodes')
             /\ nodes'[child'].parent = node
             /\ \A c \in 1..Len(nodes) : nodes'[c] = nodes[c]
             /\ \A c \in added : nodes'[c].parent = node
             /\ IF added # {} THEN child' \in added
                ELSE IF untried # {} THEN child' \in untried
                ELSE child' \in before

\* C19 (EXPAND result): _expand of a node of layer 6 returns None, and the
\* iteration ends there with tree, knowledge base and best result as they
\* were; _expand of a node of a layer below 6 returns a child of that node:
\* one of those it has just added if it added any, else one with visits = 0
\* if there is one, else any child; never None and never a choice among none.
ExpandResult ==
    [][(pc = "expand" /\ ~(pc' = "idle" /\ ret'.kind = "raised")) => ExpandStep]_vars

\* _expand of a node that has five children, two of them tried, has added
\* none and returned one of the three with visits = 0
ExpandResultWitness ==
    /\ pc = "simulate"
    /\ i = 3
    /\ Cardinality(ChildSet(node)) = 5
    /\ Cardinality(Unvisited(node)) = 3
    /\ nodes[child].parent = node
    /\ nodes[child].visits = 0

\* _select has stopped at `node` by Dynamic Expansion
StoppedByDynamicExpansion ==
    /\ nodes[node].parent # 0
    /\ \E c \in 1..Len(nodes) : nodes[c].parent = node
    /\ nodes[node].layer < 6
    /\ nodes[node].trigger
    /\ 10 * nodes[node].local_uncertainty > 3 * Scale

\* an _expand step that no raising generator call has cut short
ExpandEnds == pc = "expand" /\ ~(pc' = "idle" /\ ret'.kind = "raised")

\* how many children `node` has in a tree
Children(tree) == Cardinality({c \in 1..Len(tree) : tree[c].parent = node})

\* C20 as stated: the node Dynamic Expansion stops at gains at least one
\* child in that iteration.
DynamicExpansionGrows ==
    [][(ExpandEnds /\ StoppedByDynamicExpansion) => Children(nodes') > Children(nodes)]_vars

\* C20 (Dynamic Expansion grows the node), amended: the node Dynamic
\* Expansion stops at is expanded again in that iteration; it gains at least
\* one child, and never more than make 5, unless it has 5 children already
\* or every candidate left by the pruning resembles (by more than 0.8) the
\* content of a child it has: then it gains none, and a child it has is
\* simulated.
DynamicExpansionExpands ==
    [][(ExpandEnds /\ StoppedByDynamicExpansion) =>
          LET kept == PruneSimilar(hist'.asked)
              old == {nodes[c].content : c \in {d \in 1..Len(nodes) : nodes[d].parent = node}}
          IN  /\ pc' = "simulate"
              /\ nodes'[child'].parent = node
              /\ IF \/ Children(nodes) >= 5
                    \/ \A j \in 1..Len(kept) : \E e \in old : Similarity(kept[j], e) > 80
                 THEN nodes' = nodes
                 ELSE /\ Children(nodes') > Children(nodes)
                      /\ Children(nodes') <= 5
                      /\ child' > Len(nodes)]_vars

\* Dynamic Expansion has stopped at a node of three children, which has
\* gained two
DynamicExpansionExpandsWitness ==
    /\ pc = "simulate"
    /\ nodes[node].parent # 0
    /\ nodes[node].trigger
    /\ nodes[node].local_uncertainty > Eta
    /\ Cardinality(ChildSet(node)) = 5
    /\ Cardinality(Unvisited(node)) = 4
    /\ child > Len(nodes) - 2

\* the node n of a tree and its ancestors
RECURSIVE UpFrom(_, _)
UpFrom(tree, n) == IF n = 0 THEN {} ELSE {n} \cup UpFrom(tree, tree[n].parent)

\* a step of _backpropagate
BackpropStep == pc = "backprop" /\ pc' = "track"

\* C21 (backpropagation path and frame): one backpropagation adds exactly 1
\* to the visits of exactly the nodes from the simulated node up to and
\* including the root, and gives each of them the value
\* value + rho * (reward - value) / visits with the new visits and
\* rho = exp(-global_uncertainty); the visits, value, trigger and
\* local_uncertainty of every other node stay, and so does the structure of
\* the tree.
BackpropFrame ==
    [][BackpropStep =>
          LET path == UpFrom(nodes, child)
              rho == ExpNeg(sim.global_u)
          IN  /\ 1 \in path
              /\ Len(nodes') = Len(nodes)
              /\ \A n \in 1..Len(nodes) :
                    /\ nodes'[n].parent = nodes[n].parent
                    /\ nodes'[n].layer = nodes[n].layer
                    /\ nodes'[n].content = nodes[n].content
                    /\ IF n \in path
                       THEN /\ nodes'[n].visits = nodes[n].visits + 1
                            /\ nodes'[n].value =
                                  nodes[n].value
                                  + RoundDiv(RoundDiv(rho * (sim.reward - nodes[n].value), Scale),
                                             nodes[n].visits + 1)
                       ELSE /\ nodes'[n].visits = nodes[n].visits
                            /\ nodes'[n].value = nodes[n].value
                            /\ nodes'[n].trigger = nodes[n].trigger
                            /\ nodes'[n].local_uncertainty = nodes[n].local_uncertainty]_vars

\* a backpropagation from a node two layers down has left alone a node off
\* its path, visited before and flagged
BackpropFrameWitness ==
    /\ pc = "track"
    /\ nodes[child].layer >= 2
    /\ nodes[child].visits = 1
    /\ nodes[1].visits >= 2
    /\ sim.global_u > 0
    /\ \E n \in 1..Len(nodes) \ UpFrom(nodes, child) :
          nodes[n].visits >= 1 /\ nodes[n].trigger

\* C22 (knowledge base update, once per backpropagation): in one
\* backpropagation the guidance list of each layer gets exactly one new
\* entry, the guidance of that layer's signal, put last (and the list cut to
\* its last 10 if that makes it longer than 20), if that guidance is not
\* empty, and stays as it is otherwise; whatever the depth of the simulated
\* node and whatever the signal's trigger.
KbOncePerBackprop ==
    [][BackpropStep =>
          \A l \in 2..7 :
              LET name == LAYER_NAMES[l]
                  guidance == sim.signals[name].guidance
                  appended == kb[name] \o <<guidance>>
              IN  IF guidance # NoAdvice
                  THEN kb'[name] = IF Len(appended) > 20
                                   THEN SubSeq(appended, Len(appended) - 9, Len(appended))
                                   ELSE appended
                  ELSE kb'[name] = kb[name]]_vars

\* a backpropagation from a node two layers down has put one entry into the
\* list of a layer that was not flagged, and none into the list of a layer
\* that was flagged without guidance
KbOncePerBackpropWitness ==
    /\ pc = "track"
    /\ nodes[child].layer = 2
    /\ ~sim.signals["sets"].trigger
    /\ sim.signals["sets"].guidance # NoAdvice
    /\ sim.signals["type"].trigger
    /\ sim.signals["type"].guidance = NoAdvice
    /\ kb["sets"] = <<sim.signals["sets"].guidance>>
    /\ kb["type"] = <<>>

\* C23 (signal attachment): one backpropagation overwrites trigger and
\* local_uncertainty of every node of its path but the root with the signal
\* of the node's own layer, out of the one evaluation of that iteration; the
\* root has trigger = false and local_uncertainty = 0 at all times; and no
\* step but a backpropagation through a node changes that node's trigger or
\* local_uncertainty.
SignalAttachment ==
    [][/\ BackpropStep =>
             \A n \in UpFrom(nodes, child) \ {1} :
                 LET sig == sim.signals[LAYER_NAMES[nodes[n].layer + 1]]
                 IN  /\ nodes'[n].trigger = sig.trigger
                     /\ nodes'[n].local_uncertainty = sig.local_uncertainty
       /\ Len(nodes') >= 1 =>
             /\ ~nodes'[1].trigger
             /\ nodes'[1].local_uncertainty = 0
       /\ \A n \in 1..Min(Len(nodes), Len(nodes')) :
             (\/ nodes'[n].trigger # nodes[n].trigger
              \/ nodes'[n].local_uncertainty # nodes[n].local_uncertainty)
             => /\ BackpropStep
                /\ n \in UpFrom(nodes, child)
                /\ n # 1]_vars

\* a backpropagation has cleared the flag of the nodes of its path, and a
\* node of another branch still has the flag and the local uncertainty of an
\* earlier iteration, which the signal of its layer no longer carries
SignalAttachmentWitness ==
    /\ pc = "track"
    /\ nodes[child].layer >= 2
    /\ \A n \in UpFrom(nodes, child) : ~nodes[n].trigger /\ nodes[n].local_uncertainty = 0
    /\ \E n \in 1..Len(nodes) \ UpFrom(nodes, child) :
          /\ nodes[n].trigger
          /\ nodes[n].local_uncertainty > 0
          /\ ~sim.signals[LAYER_NAMES[nodes[n].layer + 1]].trigger
          /\ sim.signals[LAYER_NAMES[nodes[n].layer + 1]].local_uncertainty = 0

\* a step inside one search(): neither its call nor its end
InsideSearch == pc # "idle" /\ pc' # "idle"

\* C24 (tree growth is append-only and confined to EXPAND): inside a
\* search() no step removes a node or changes a node's parent, layer or
\* content; only _expand adds nodes, at most 3 at a time, all of them
\* children of the node _select returned and one layer below it; and
\* _simulate, which completes the remaining layers, adds none.
GrowthInExpand ==
    [][InsideSearch =>
          /\ Len(nodes') >= Len(nodes)
          /\ \A n \in 1..Len(nodes) :
                /\ nodes'[n].parent = nodes[n].parent
                /\ nodes'[n].layer = nodes[n].layer
                /\ nodes'[n].content = nodes[n].content
          /\ Len(nodes') > Len(nodes) =>
                /\ pc = "expand"
                /\ node' = node
                /\ Len(nodes') <= Len(nodes) + 3
                /\ \A c \in (Len(nodes) + 1)..Len(nodes') :
                      /\ nodes'[c].parent = node
                      /\ nodes'[c].layer = nodes[node].layer + 1
          /\ pc = "simulate" => Len(nodes') = Len(nodes)]_vars

\* _expand has given a node of layer 1 three children, and the simulation
\* of one of them, five layers short of complete, has added no node
GrowthInExpandWitness ==
    /\ pc = "backprop"
    /\ Len(nodes) = 5
    /\ nodes[node].layer = 1
    /\ \A c \in 3..5 : nodes[c].parent = node /\ nodes[c].layer = 2
    /\ child \in 3..5
    /\ nodes[child].result.success

\* C25 (code execution failure is data): an iteration whose execution
\* result has success = false is not left by an exception and is not
\* skipped: _simulate returns a reward of at most 0.7 for it, it is
\* backpropagated (the visits of the path go up by one, the knowledge base
\* takes the guidance), best_result and found_correct stay as they were, and
\* search() goes on to the next iteration.
FailureIsData ==
    [][/\ (pc = "simulate" /\ pc' # "idle") =>
             /\ pc' = "backprop"
             /\ i' = i
             /\ hist'.skipped = hist.skipped
             /\ ~sim'.result.success =>
                   /\ 10 * sim'.reward <= 7 * Scale
                   /\ best_result' = best_result
       /\ (pc = "backprop" /\ ~sim.result.success) =>
             /\ pc' = "track"
             /\ \A n \in UpFrom(nodes, child) : nodes'[n].visits = nodes[n].visits + 1
             /\ \A l \in 2..7 :
                   sim.signals[LAYER_NAMES[l]].guidance # NoAdvice =>
                       /\ kb'[LAYER_NAMES[l]] # <<>>
                       /\ kb'[LAYER_NAMES[l]][Len(kb'[LAYER_NAMES[l]])]
                             = sim.signals[LAYER_NAMES[l]].guidance
             /\ best_result' = best_result
       /\ (pc = "track" /\ ~sim.result.success) =>
             /\ pc' = "select"
             /\ i' = i + 1
             /\ best_result' = best_result
             /\ found_correct' = found_correct
             /\ ret' = ret]_vars

\* an execution that succeeded, then one that failed and still scored above
\* 0: both were backpropagated, the knowledge base took the guidance of
\* both, and the best result is still the first
FailureIsDataWitness ==
    /\ pc = "select"
    /\ i = 2
    /\ Len(hist.runs) = 2
    /\ hist.runs[1].result.success
    /\ ~hist.runs[2].result.success
    /\ hist.runs[2].reward > 0
    /\ best_result = hist.runs[1].result
    /\ nodes[1].visits = 2
    /\ Len(kb["type"]) = 2

\* s is t with some entries left out, the others in their order
IsSubList(s, t) ==
    \E f \in [1..Len(s) -> 1..Len(t)] :
        /\ \A j \in 1..Len(s) : s[j] = t[f[j]]
        /\ \A j \in 1..Len(s) : \A m \in 1..Len(s) : j < m => f[j] < f[m]

\* C26 (pruning idempotence): whatever the candidates and whatever the
\* ratios of the texts, _prune_similar returns an order-preserving sub-list
\* of its input that holds the first raw candidate, and, applied to what it
\* returned, returns it unchanged.
PruneIdempotent ==
    /\ pc \in {"pruned", "pruned again"} =>
          /\ IsSubList(loop.results[1], cfg.candidates)
          /\ cfg.candidates # <<>> =>
                /\ loop.results[1] # <<>>
                /\ loop.results[1][1] = cfg.candidates[1]
    /\ pc = "pruned again" => loop.results[2] = loop.results[1]

\* three texts, the second too close to the first, the third too close to
\* the second but not to the first: the first and the third are kept, and
\* kept again
PruneIdempotentWitness ==
    /\ pc = "pruned again"
    /\ Len(cfg.candidates) = 3
    /\ cfg.ratio[cfg.candidates[2]][cfg.candidates[1]] > 80
    /\ cfg.ratio[cfg.candidates[3]][cfg.candidates[2]] > 80
    /\ cfg.ratio[cfg.candidates[3]][cfg.candidates[1]] <= 80
    /\ loop.results[1] = <<cfg.candidates[1], cfg.candidates[3]>>
    /\ loop.results[2] = loop.results[1]

\* C27 (no near-duplicate siblings): every child of a node has a similarity
\* of at most 0.8 to every child of that node attached before it, so no two
\* children of a node have the same content; and what one pruning keeps has
\* no candidate with a similarity above 0.8 to one kept before it: of two
\* candidates that close, the first is kept and the second is not.
NoNearDuplicates ==
    /\ \A c \in 1..Len(nodes) : \A d \in 1..(c - 1) :
          (nodes[d].parent = nodes[c].parent /\ nodes[c].parent # 0) =>
              /\ Similarity(nodes[c].content, nodes[d].content) <= 80
              /\ nodes[c].content # nodes[d].content
    /\ pc \in {"pruned", "pruned again"} =>
          LET kept == loop.results[1]
          IN  /\ \A m \in 1..Len(kept) : \A j \in 1..(m - 1) :
                    cfg.ratio[kept[m]][kept[j]] <= 80
              /\ (Len(cfg.candidates) = 2
                    /\ cfg.ratio[cfg.candidates[2]][cfg.candidates[1]] > 80)
                 => kept = <<cfg.candidates[1]>>

\* Dynamic Expansion has stopped at a node; the generator has answered a
\* text too close to a child the node has, and another text: the node has
\* gained a child, of the other text
NoNearDuplicatesWitness ==
    /\ pc = "simulate"
    /\ hist.asked # <<>>
    /\ nodes[child].parent = node
    /\ nodes[child].visits = 0
    /\ \E d \in 1..(child - 1) :
          /\ nodes[d].parent = node
          /\ nodes[d].visits > 0
          /\ \E j \in 1..Len(hist.asked) :
                /\ hist.asked[j] # nodes[d].content
                /\ Similarity(hist.asked[j], nodes[d].content) > 80

\* the visits of the children of n, added up
ChildVisits(n) ==
    SumSeq([c \in 1..Len(nodes) |-> IF nodes[c].parent = n THEN nodes[c].visits ELSE 0])

\* C28 (visit consistency): between two iterations every node has at least
\* as many visits as its children have together, the root has as many as
\* iterations were simulated (the skipped ones not counted), and every node
\* that has children has visits >= 1; so a child with visits > 0, whose
\* ucb1 takes the logarithm of its parent's visits, has a parent with
\* visits >= 1.
VisitConsistency ==
    pc = "select" =>
        /\ \A n \in 1..Len(nodes) : nodes[n].visits >= ChildVisits(n)
        /\ nodes[1].visits = Len(hist.runs)
        /\ nodes[1].visits + hist.skipped = i
        /\ \A n \in 1..Len(nodes) :
              (\E c \in 1..Len(nodes) : nodes[c].parent = n) => nodes[n].visits >= 1
        /\ \A c \in 2..Len(nodes) :
              nodes[c].visits > 0 => nodes[nodes[c].parent].visits >= 1

\* after three iterations, none skipped: a node below the root that was
\* simulated once itself and twice through its children
VisitConsistencyWitness ==
    /\ pc = "select"
    /\ i = 3
    /\ nodes[1].visits = 3
    /\ \E n \in 2..Len(nodes) :
          /\ ChildVisits(n) = 2
          /\ nodes[n].visits = 3

Overridden(j) ==
    /\ expected_answer.some
    /\ IsValid(hist.runs[j].result)
    /\ Evaluate(ExtractAnswer(hist.runs[j].result.output), expected_answer.val)

\* the successful executions of the running search(), by iteration
Successes == {j \in 1..Len(hist.runs) : hist.runs[j].result.success}

\* C30 (a reward of 1.0 only from the ground-truth override): an iteration
\* the override does not apply to has a reward of at most 0.9; so in a
\* search() without an expected answer, or whose outputs never match it,
\* the early exit is never taken, and when search() returns it has gone
\* through all n_iterations iterations and returns the sentinel, or the
\* result of the first execution that succeeded.
OnlyOverrideGivesOne ==
    /\ \A j \in 1..Len(hist.runs) :
          ~Overridden(j) => 10 * hist.runs[j].reward <= 9 * Scale
    /\ (\A j \in 1..Len(hist.runs) : ~Overridden(j)) =>
          /\ ~found_correct
          /\ pc # "return"
          /\ (pc = "idle" /\ ret.kind = "returned") =>
                /\ i = cfg.n_iterations
                /\ ret.result =
                      IF Successes = {} THEN Result(FALSE, <<>>, "No solution found")
                      ELSE hist.runs[CHOOSE j \in Successes : \A m \in Successes : j <= m].result

\* a search() for the answer 42 has returned after its three iterations: the
\* first execution failed, the second printed 7 and got the reward 0.9, the
\* third printed no number; the result of the second is returned
OnlyOverrideGivesOneWitness ==
    /\ pc = "idle"
    /\ ret.kind = "returned"
    /\ expected_answer = Some(42)
    /\ i = 3
    /\ Len(hist.runs) = 3
    /\ ~hist.runs[1].result.success
    /\ hist.runs[2].result = OkOut(7)
    /\ 10 * hist.runs[2].reward = 9 * Scale
    /\ hist.runs[3].result = OkDot
    /\ ret.result = OkOut(7)

====
